---- MODULE Spec2Model ----
(***************************************************************************)
(* Model of the medical chat bot's vector database                         *)
(* (utils/vector_database.py), the /reprocess_pdf handler (app.py) and the *)
(* critic loop of generate_medical_response (utils/retrieval_qa.py).       *)
(*                                                                         *)
(* Scores and distances are in tenths: 3 stands for 0.3, 20 for 2.0.       *)
(* The embedding model and its dimension are loaded on first use and never *)
(* change afterwards; they are not part of the state.                      *)
(***************************************************************************)
EXTENDS Integers, Sequences, FiniteSets, TLC

VARIABLES
    vector_index,      \* vector_database.vector_index: [present, vectors]
    vector_texts,      \* vector_database.vector_texts
    vector_metadatas,  \* vector_database.vector_metadatas
    disk_faiss,        \* the file "<path>.faiss": [present, vectors]
    disk_pkl,          \* the file "<path>.pkl": [present, texts, metadatas]
    ret,               \* the most recent call: its name, arguments and outcome
    add_completed,     \* an add_to_vector_database call has completed in this process
    trip,              \* progress of a save / fresh start / load round trip
    pc,                \* position of generate_medical_response
    query,             \* its query argument
    top_k,             \* its local top_k
    retries,           \* its local retries
    final_response,    \* its local final_response
    last_raw,          \* the completion service's latest answer
    context,           \* the context of the current iteration
    calls,             \* what the current request has called so far
    writer,            \* position of a /reprocess_pdf request served step by step
    reader             \* position of a similarity_search running beside it

dbvars == <<vector_index, vector_texts, vector_metadatas, disk_faiss, disk_pkl,
            add_completed, trip>>
qavars == <<pc, query, top_k, retries, final_response, last_raw, context, calls>>
ccvars == <<writer, reader>>
vars == <<vector_index, vector_texts, vector_metadatas, disk_faiss, disk_pkl,
          ret, add_completed, trip, pc, query, top_k, retries, final_response,
          last_raw, context, calls, writer, reader>>

-----------------------------------------------------------------------------
(* Bounds *)

NumTexts == 2      \* distinct passage texts
MaxChunks == 2     \* chunks handed to one add
MaxVectors == 2    \* cap on the index and on the passage list
MaxK == 2          \* largest k of a direct similarity_search call
NumQueries == 2    \* distinct queries

Texts == 1..NumTexts
Queries == 1..NumQueries

-----------------------------------------------------------------------------
(* Program constants *)

RelevanceThreshold == 3   \* score > 0.3
FloatMax == 1000          \* the distance FAISS reports for a missing neighbour
InitialTopK == 3
MaxTopK == 12
MinCompleteLen == 80

-----------------------------------------------------------------------------
(* Helpers *)

SeqsUpTo(S, n) == UNION {[1..m -> S] : m \in 0..n}

(* A chunk as create_smart_chunks builds it: a text and its metadata; the
   chunk_id is the position in the splitter's output, counted from 0. *)
MakeChunks(ts) == [i \in 1..Len(ts) |->
                     [text |-> ts[i], metadata |-> [chunk_id |-> i - 1]]]

ChunkLists == {MakeChunks(ts) : ts \in SeqsUpTo(Texts, MaxChunks)}

(* The embedding model: the normalized vector of a text, named by the text it
   encodes.  Cosine gives the cosine of the angle between the normalized query
   vector and a normalized passage vector, in tenths. *)
Embed(t) == [of |-> t]

Cosine(q, v) == ((q * 8 + v.of * 4) % 21) - 10

NoIndex == [present |-> FALSE, vectors |-> <<>>]

EmptyIndex == [present |-> TRUE, vectors |-> <<>>]

NTotal(ix) == Len(ix.vectors)

NoFile == [present |-> FALSE, vectors |-> <<>>]

NoPkl == [present |-> FALSE, texts |-> <<>>, metadatas |-> <<>>]

NoRet == [op |-> "none"]

NoCalls == [retrievals |-> 0, completions |-> 0, rejections |-> 0, last_k |-> 0,
            verdict |-> "none", raised |-> FALSE]

(* A response text: its length, whether it holds one of the hedging phrases,
   how many characters post-processing strips from it, and the breadth k of
   the request that produced it. *)
NoResponse == [kind |-> "empty", len |-> 0, markup |-> 0, vague |-> FALSE, k |-> 0]

IdleWriter == [pc |-> "idle", chunks |-> <<>>, response |-> "none"]

IdleReader == [pc |-> "idle", q |-> 0, k |-> 0, hits |-> <<>>]

-----------------------------------------------------------------------------
(* vector_database.py *)

(* create_vector_index: always binds a new, empty HNSW index. *)
create_vector_index == EmptyIndex

(* get_database_stats()['index_size'] *)
index_size == IF vector_index.present THEN NTotal(vector_index) ELSE 0

(* get_database_stats()['total_chunks'] *)
total_chunks == Len(vector_texts)

Init ==
    /\ vector_index = NoIndex
    /\ vector_texts = <<>>
    /\ vector_metadatas = <<>>
    /\ disk_faiss = NoFile
    /\ disk_pkl = NoPkl
    /\ ret = NoRet
    /\ add_completed = FALSE
    /\ trip = [phase |-> "none", texts |-> <<>>, count |-> 0]
    /\ pc = "idle"
    /\ query = 0
    /\ top_k = 0
    /\ retries = 0
    /\ final_response = NoResponse
    /\ last_raw = NoResponse
    /\ context = <<>>
    /\ calls = NoCalls
    /\ writer = IdleWriter
    /\ reader = IdleReader

-----------------------------------------------------------------------------
(* add_to_vector_database(chunks).  embed_ok says whether generate_embeddings
   returns; with no chunks the embeddings array is one-dimensional and
   faiss.normalize_L2 raises before anything is stored.  The result is the
   state the call leaves and whether it raised. *)
AddPartial(ix, texts, metas, chunks, embed_ok) ==
    LET ix1 == IF ix.present THEN ix ELSE create_vector_index
        ts == [i \in 1..Len(chunks) |-> chunks[i].text]
        ms == [i \in 1..Len(chunks) |-> chunks[i].metadata]
    IN  IF embed_ok /\ Len(chunks) > 0
        THEN [index |-> [present |-> TRUE,
                         vectors |-> ix1.vectors \o [i \in 1..Len(ts) |-> Embed(ts[i])]],
              texts |-> texts \o ts, metadatas |-> metas \o ms, raised |-> FALSE]
        ELSE [index |-> ix1, texts |-> texts \o ts, metadatas |-> metas \o ms,
              raised |-> TRUE]

AddEffect(ix, texts, metas, chunks, embed_ok) ==
    LET ix1 == IF ix.present THEN ix ELSE create_vector_index
        ts == [i \in 1..Len(chunks) |-> chunks[i].text]
        ms == [i \in 1..Len(chunks) |-> chunks[i].metadata]
    IN  IF embed_ok /\ Len(chunks) > 0
        THEN [index |-> [present |-> TRUE,
                         vectors |-> ix1.vectors \o [i \in 1..Len(ts) |-> Embed(ts[i])]],
              texts |-> texts \o ts, metadatas |-> metas \o ms, raised |-> FALSE]
        ELSE [index |-> ix1, texts |-> texts, metadatas |-> metas, raised |-> TRUE]

(* The cap that keeps the model finite. *)
Fits(ix, texts, chunks) ==
    /\ NTotal(ix) + Len(chunks) <= MaxVectors
    /\ Len(texts) + Len(chunks) <= MaxVectors

(* save_vector_database(path): the two files it leaves.  The index file is
   written only when an index exists and holds at least one vector; the side
   file is always written.  Writes are taken to succeed. *)
SaveEffect(ix, texts, metas, faiss, pkl) ==
    [faiss |-> IF ix.present /\ NTotal(ix) > 0
               THEN [present |-> TRUE, vectors |-> ix.vectors]
               ELSE faiss,
     pkl |-> [present |-> TRUE, texts |-> texts, metadatas |-> metas]]

(* load_vector_database(path).  fail names the step that raises, if any:
   reading the index file or unpickling the side file.  The result is the state the call leaves and its return value. *)
LoadEffect(ix, texts, metas, faiss, pkl, fail) ==
    IF faiss.present /\ fail = "faiss"
    THEN [index |-> ix, texts |-> texts, metadatas |-> metas, value |-> FALSE]
    ELSE LET ix1 == IF faiss.present
                    THEN [present |-> TRUE, vectors |-> faiss.vectors]
                    ELSE ix
         IN  IF pkl.present /\ fail = "pkl"
             THEN [index |-> ix1, texts |-> texts, metadatas |-> metas, value |-> FALSE]
             ELSE [index |-> ix1,
                   texts |-> IF pkl.present THEN pkl.texts ELSE texts,
                   metadatas |-> IF pkl.present THEN pkl.metadatas ELSE metas,
                   value |-> TRUE]

LoadFaults == {"none", "faiss", "pkl"}

-----------------------------------------------------------------------------
(* similarity_search *)

(* faiss.IndexHNSWFlat(dimension, 32) is built without a metric argument, so
   the index uses FAISS's default metric, squared L2 distance. *)
Metric == "L2"

(* The score the index reports for a stored vector: for unit vectors the
   squared L2 distance is 2 - 2 cos; under inner product it is cos. *)
IndexScore(q, v) ==
    IF Metric = "L2" THEN 20 - 2 * Cosine(q, v) ELSE Cosine(q, v)

(* The index lists the neighbours it found best first: smallest distance
   first under L2, largest inner product first otherwise. *)
BestFirst(a, b) == IF Metric = "L2" THEN a <= b ELSE a >= b

PadScore == IF Metric = "L2" THEN FloatMax ELSE -FloatMax

(* vector_index.search(query_embedding, k): k entries (score, idx).  The graph
   search is approximate: it finds some set of at most k stored positions
   (counted from 0), lists them best first and pads with idx = -1. *)
IndexSearch(ix, q, k) ==
    LET n == NTotal(ix)
        sc(i) == IndexScore(q, ix.vectors[i + 1])
        Found == {S \in SUBSET (0..(n - 1)) : Cardinality(S) <= k}
        Orders(S) == {o \in [1..Cardinality(S) -> S] :
                        /\ \A i, j \in 1..Cardinality(S) : i # j => o[i] # o[j]
                        /\ \A i, j \in 1..Cardinality(S) :
                              i < j => BestFirst(sc(o[i]), sc(o[j]))}
    IN  UNION {{[i \in 1..k |-> IF i <= Len(o)
                                THEN [score |-> sc(o[i]), idx |-> o[i]]
                                ELSE [score |-> PadScore, idx |-> -1]] :
                  o \in Orders(S)} : S \in Found}

(* Python's seq[idx]: a negative idx counts from the end, and an idx outside
   -len..len-1 raises IndexError. *)
InRange(seq, idx) == -Len(seq) <= idx /\ idx < Len(seq)

Item(seq, idx) == IF idx >= 0 THEN seq[idx + 1] ELSE seq[Len(seq) + idx + 1]

(* The test of line 114. *)
RelevantNoFloor(h) == h.idx # -1

Relevant(h) == h.idx # -1 /\ h.score > RelevanceThreshold

(* The loop of lines 112-119 over the first n entries of the hits: an entry
   that passes the test is looked up in vector_texts and vector_metadatas, and
   a position outside either list raises IndexError. *)
RECURSIVE FilterHits(_, _, _, _)
FilterHits(hits, n, texts, metas) ==
    IF n = 0 THEN [raised |-> FALSE, results |-> <<>>]
    ELSE LET before == FilterHits(hits, n - 1, texts, metas)
             h == hits[n]
         IN  IF before.raised THEN before
             ELSE IF Relevant(h)
             THEN IF ~InRange(texts, h.idx) \/ ~InRange(metas, h.idx)
                  THEN [raised |-> TRUE, results |-> <<>>]
                  ELSE [raised |-> FALSE,
                        results |-> Append(before.results,
                                      [text |-> Item(texts, h.idx),
                                       score |-> h.score,
                                       metadata |-> Item(metas, h.idx)])]
             ELSE before

(* similarity_search(q, k): the outcomes the call can have.  encode_ok says
   whether embedding_model.encode returns for the query; an empty or missing
   index is answered before the query is encoded. *)
SimilaritySearch(ix, texts, metas, q, k, encode_ok) ==
    IF ~ix.present \/ NTotal(ix) = 0
    THEN {[raised |-> FALSE, results |-> <<>>]}
    ELSE IF ~encode_ok
    THEN {[raised |-> TRUE, results |-> <<>>]}
    ELSE {FilterHits(hits, Len(hits), texts, metas) : hits \in IndexSearch(ix, q, k)}

-----------------------------------------------------------------------------
(* Operations on the vector database *)

NoTrip == [phase |-> "none", texts |-> <<>>, count |-> 0]

(* A call of add_to_vector_database. *)
Add(chunks, embed_ok) ==
    /\ pc = "idle"
    /\ Fits(vector_index, vector_texts, chunks)
    /\ LET r == AddEffect(vector_index, vector_texts, vector_metadatas, chunks, embed_ok)
       IN  /\ vector_index' = r.index
           /\ vector_texts' = r.texts
           /\ vector_metadatas' = r.metadatas
           /\ ret' = [op |-> "add", n |-> Len(chunks), raised |-> r.raised]
           /\ add_completed' = (add_completed \/ ~r.raised)
    /\ trip' = NoTrip
    /\ UNCHANGED <<disk_faiss, disk_pkl>>
    /\ UNCHANGED qavars
    /\ UNCHANGED ccvars

(* A call of save_vector_database. *)
Save ==
    /\ pc = "idle"
    /\ LET r == SaveEffect(vector_index, vector_texts, vector_metadatas,
                           disk_faiss, disk_pkl)
       IN  /\ disk_faiss' = r.faiss
           /\ disk_pkl' = r.pkl
    /\ ret' = [op |-> "save"]
    /\ trip' = [phase |-> "saved", texts |-> vector_texts, count |-> index_size]
    /\ UNCHANGED <<vector_index, vector_texts, vector_metadatas, add_completed>>
    /\ UNCHANGED qavars
    /\ UNCHANGED ccvars

(* A call of load_vector_database. *)
Load(fail) ==
    /\ pc = "idle"
    /\ LET r == LoadEffect(vector_index, vector_texts, vector_metadatas,
                           disk_faiss, disk_pkl, fail)
       IN  /\ vector_index' = r.index
           /\ vector_texts' = r.texts
           /\ vector_metadatas' = r.metadatas
           /\ ret' = [op |-> "load", value |-> r.value]
           /\ trip' = IF r.value /\ trip.phase = "fresh"
                      THEN [trip EXCEPT !.phase = "loaded"]
                      ELSE NoTrip
    /\ UNCHANGED <<disk_faiss, disk_pkl, add_completed>>
    /\ UNCHANGED qavars
    /\ UNCHANGED ccvars

(* The process ends and a new one starts: the module globals are as at import
   (lines 11-13), the files stay. *)
Restart ==
    /\ pc = "idle"
    /\ vector_index' = NoIndex
    /\ vector_texts' = <<>>
    /\ vector_metadatas' = <<>>
    /\ add_completed' = FALSE
    /\ ret' = [op |-> "restart"]
    /\ trip' = IF trip.phase = "saved" THEN [trip EXCEPT !.phase = "fresh"] ELSE NoTrip
    /\ UNCHANGED <<disk_faiss, disk_pkl>>
    /\ UNCHANGED qavars
    /\ UNCHANGED ccvars

(* process_medical_pdf: chunks is what process_pdf_complete returns (empty
   when the PDF yields nothing); an exception of add is caught and turned into
   False.  The result is the state and files it leaves. *)
ProcessMedicalPdf(ix, texts, metas, faiss, pkl, pdf_exists, chunks, embed_ok) ==
    IF ~pdf_exists \/ Len(chunks) = 0
    THEN [index |-> ix, texts |-> texts, metadatas |-> metas,
          faiss |-> faiss, pkl |-> pkl, ok |-> FALSE]
    ELSE LET a == AddEffect(ix, texts, metas, chunks, embed_ok)
             s == SaveEffect(a.index, a.texts, a.metadatas, faiss, pkl)
         IN  IF a.raised
             THEN [index |-> a.index, texts |-> a.texts, metadatas |-> a.metadatas,
                   faiss |-> faiss, pkl |-> pkl, ok |-> FALSE]
             ELSE [index |-> a.index, texts |-> a.texts, metadatas |-> a.metadatas,
                   faiss |-> s.faiss, pkl |-> s.pkl, ok |-> TRUE]

(* What lines 144-148 of app.py leave of the database.  The import binds
   app.vector_index, app.vector_texts and app.vector_metadatas to the objects
   of utils.vector_database; "vector_index = None" rebinds app's own global
   only, while clear() empties the two shared lists. *)
ClearExisting(ix, texts, metas) ==
    [index |-> ix, texts |-> <<>>, metadatas |-> <<>>]

(* The /reprocess_pdf handler. *)
ReprocessPdf(pdf_exists, chunks, embed_ok) ==
    /\ pc = "idle"
    /\ NTotal(vector_index) + Len(chunks) <= MaxVectors
    /\ LET c == ClearExisting(vector_index, vector_texts, vector_metadatas)
           r == ProcessMedicalPdf(c.index, c.texts, c.metadatas, disk_faiss, disk_pkl,
                                  pdf_exists, chunks, embed_ok)
       IN  /\ vector_index' = r.index
           /\ vector_texts' = r.texts
           /\ vector_metadatas' = r.metadatas
           /\ disk_faiss' = r.faiss
           /\ disk_pkl' = r.pkl
           /\ add_completed' = (add_completed \/ r.ok)
           /\ ret' = [op |-> "reprocess_pdf", ok |-> r.ok,
                      chunks_count |-> Len(r.texts)]
           /\ trip' = IF r.ok
                      THEN [phase |-> "saved", texts |-> r.texts,
                            count |-> IF r.index.present THEN NTotal(r.index) ELSE 0]
                      ELSE NoTrip
    /\ UNCHANGED qavars
    /\ UNCHANGED ccvars

(* A direct call of similarity_search(q, k). *)
Search(q, k, encode_ok) ==
    /\ pc = "idle"
    /\ \E r \in SimilaritySearch(vector_index, vector_texts, vector_metadatas,
                                 q, k, encode_ok) :
          ret' = [op |-> "search", q |-> q, k |-> k,
                  raised |-> r.raised, results |-> r.results]
    /\ trip' = NoTrip
    /\ UNCHANGED <<vector_index, vector_texts, vector_metadatas, disk_faiss, disk_pkl,
                   add_completed>>
    /\ UNCHANGED qavars
    /\ UNCHANGED ccvars

Next ==
    \/ \E chunks \in ChunkLists, embed_ok \in BOOLEAN : Add(chunks, embed_ok)
    \/ Save
    \/ \E fail \in LoadFaults : Load(fail)
    \/ Restart
    \/ \E pdf_exists \in BOOLEAN, chunks \in ChunkLists, embed_ok \in BOOLEAN :
          ReprocessPdf(pdf_exists, chunks, embed_ok)

Spec == Init /\ [][Next]_vars

(* A direct call of create_vector_index. *)
CreateVectorIndexCall ==
    /\ pc = "idle"
    /\ vector_index' = create_vector_index
    /\ ret' = [op |-> "create_vector_index", raised |-> FALSE,
               existed |-> vector_index.present, held |-> NTotal(vector_index)]
    /\ trip' = NoTrip
    /\ UNCHANGED <<vector_texts, vector_metadatas, disk_faiss, disk_pkl, add_completed>>
    /\ UNCHANGED qavars
    /\ UNCHANGED ccvars

(* The database under additions, reprocessing and direct searches. *)
NextSearch ==
    \/ \E chunks \in ChunkLists, embed_ok \in BOOLEAN : Add(chunks, embed_ok)
    \/ \E pdf_exists \in BOOLEAN, chunks \in ChunkLists, embed_ok \in BOOLEAN :
          ReprocessPdf(pdf_exists, chunks, embed_ok)
    \/ \E q \in Queries, k \in 1..MaxK, encode_ok \in BOOLEAN : Search(q, k, encode_ok)

SpecSearch == Init /\ [][NextSearch]_vars

(* The same, with create_vector_index also called directly. *)
NextCreate ==
    \/ \E chunks \in ChunkLists, embed_ok \in BOOLEAN : Add(chunks, embed_ok)
    \/ \E pdf_exists \in BOOLEAN, chunks \in ChunkLists, embed_ok \in BOOLEAN :
          ReprocessPdf(pdf_exists, chunks, embed_ok)
    \/ CreateVectorIndexCall

SpecCreate == Init /\ [][NextCreate]_vars

-----------------------------------------------------------------------------
(* retrieval_qa.py *)

(* retrieve_relevant_context: the sentinel when nothing was found, otherwise
   the results numbered from 1 in the order similarity_search returned them. *)
RetrieveRelevantContext(results) ==
    IF Len(results) = 0
    THEN <<[source |-> 0, relevance |-> 0, text |-> 0]>>
    ELSE [i \in 1..Len(results) |->
            [source |-> i, relevance |-> results[i].score, text |-> results[i].text]]

(* What the completion service can answer to a request of breadth k. *)
RawResponses(k) ==
    {[kind |-> "candidate", len |-> l, markup |-> m, vague |-> v, k |-> k] :
        l \in {79, 80, 86}, m \in {0, 6}, v \in BOOLEAN}

(* format_medical_response: removes the emphasis markup and the surrounding
   whitespace; the disclaimer it appends is empty. *)
FormatMedicalResponse(r) == [r EXCEPT !.len = r.len - r.markup, !.markup = 0]

(* is_response_complete *)
IsResponseComplete(r) == ~(r.len = 0 \/ r.len < MinCompleteLen) /\ ~r.vague

(* The string the except clause returns. *)
Fallback == [kind |-> "fallback", len |-> 162, markup |-> 0, vague |-> FALSE, k |-> 0]

(* The except clause of lines 87-89: the exception ends the call, which
   returns the fallback string. *)
OnExceptionPropagates == [pc |-> "done", outcome |-> "raised", value |-> NoResponse]

OnException == [pc |-> "done", outcome |-> "returned", value |-> Fallback]

(* The loop condition of line 55. *)
LoopOneMore(k) == k <= MaxTopK + 1

LoopContinues(k) == k <= MaxTopK

(* Line 79: the breadth of the next iteration. *)
WidenByTwo(k) == k + 2

Widen(k) == k + 1

(* Line 71: the candidate becomes final_response before the critic sees it. *)
FinalOnlyIfAccepted(prev, cand, accepted) == IF accepted THEN cand ELSE prev

FinalAfterCandidate(prev, cand, accepted) == cand

(* Lines 82-83: the count the function prints, and whether it prints one. *)
EmittedRetries(r) == [printed |-> r > 0, count |-> r]

(* generate_medical_response is called: lines 50-53. *)
StartChat(q) ==
    /\ pc = "idle"
    /\ pc' = IF LoopContinues(InitialTopK) THEN "retrieve" ELSE "done"
    /\ query' = q
    /\ top_k' = InitialTopK
    /\ retries' = 0
    /\ final_response' = NoResponse
    /\ last_raw' = NoResponse
    /\ context' = <<>>
    /\ calls' = NoCalls
    /\ ret' = [op |-> "generate_medical_response", outcome |-> "running",
               value |-> NoResponse]
    /\ UNCHANGED dbvars
    /\ UNCHANGED ccvars

(* Line 56: one retrieval with the current top_k. *)
Retrieve(encode_ok) ==
    /\ pc = "retrieve"
    /\ \E r \in SimilaritySearch(vector_index, vector_texts, vector_metadatas,
                                 query, top_k, encode_ok) :
          IF r.raised
          THEN /\ pc' = OnException.pc
               /\ ret' = [op |-> "generate_medical_response",
                          outcome |-> OnException.outcome,
                          value |-> OnException.value]
               /\ calls' = [calls EXCEPT !.retrievals = @ + 1, !.last_k = top_k,
                                         !.raised = TRUE]
               /\ UNCHANGED context
          ELSE /\ pc' = "complete"
               /\ context' = RetrieveRelevantContext(r.results)
               /\ calls' = [calls EXCEPT !.retrievals = @ + 1, !.last_k = top_k]
               /\ UNCHANGED ret
    /\ UNCHANGED <<query, top_k, retries, final_response, last_raw>>
    /\ UNCHANGED dbvars
    /\ UNCHANGED ccvars

(* Lines 60-67 raise: the completion service fails. *)
CompleteRaises ==
    /\ pc = "complete"
    /\ pc' = OnException.pc
    /\ ret' = [op |-> "generate_medical_response", outcome |-> OnException.outcome,
               value |-> OnException.value]
    /\ calls' = [calls EXCEPT !.completions = @ + 1, !.raised = TRUE]
    /\ UNCHANGED <<query, top_k, retries, final_response, last_raw, context>>
    /\ UNCHANGED dbvars
    /\ UNCHANGED ccvars

(* Lines 60-85: the completion service answers, the answer is post-processed
   and judged; the loop ends and the function returns, or widens and goes on. *)
Complete(raw) ==
    /\ pc = "complete"
    /\ LET cand == FormatMedicalResponse(raw)
           accepted == IsResponseComplete(cand)
           final == FinalAfterCandidate(final_response, cand, accepted)
           k1 == IF accepted THEN top_k ELSE Widen(top_k)
           goes_on == ~accepted /\ LoopContinues(k1)
       IN  /\ last_raw' = raw
           /\ final_response' = final
           /\ top_k' = k1
           /\ retries' = IF accepted THEN retries ELSE retries + 1
           /\ calls' = [calls EXCEPT !.completions = @ + 1,
                                     !.rejections = IF accepted THEN @ ELSE @ + 1,
                                     !.verdict = IF accepted THEN "accepted"
                                                 ELSE "rejected"]
           /\ pc' = IF goes_on THEN "retrieve" ELSE "done"
           /\ ret' = IF goes_on THEN ret
                     ELSE [op |-> "generate_medical_response",
                           outcome |-> "returned", value |-> final]
    /\ UNCHANGED <<query, context>>
    /\ UNCHANGED dbvars
    /\ UNCHANGED ccvars

(* The databases a request is served from: a new process, a corpus added by
   one add, and that corpus after /reprocess_pdf. *)
FreshDb == [index |-> NoIndex, texts |-> <<>>, metadatas |-> <<>>]

AddedDb == AddEffect(FreshDb.index, FreshDb.texts, FreshDb.metadatas,
                     MakeChunks(<<1, 2>>), TRUE)

ReprocessedDb ==
    LET c == ClearExisting(AddedDb.index, AddedDb.texts, AddedDb.metadatas)
    IN  ProcessMedicalPdf(c.index, c.texts, c.metadatas, NoFile, NoPkl,
                          TRUE, MakeChunks(<<2>>), TRUE)

ServedDbs == {FreshDb, AddedDb, ReprocessedDb}

InitQA ==
    /\ \E d \in ServedDbs :
          /\ vector_index = d.index
          /\ vector_texts = d.texts
          /\ vector_metadatas = d.metadatas
    /\ disk_faiss = NoFile
    /\ disk_pkl = NoPkl
    /\ ret = NoRet
    /\ add_completed = FALSE
    /\ trip = NoTrip
    /\ pc = "idle"
    /\ query = 0
    /\ top_k = 0
    /\ retries = 0
    /\ final_response = NoResponse
    /\ last_raw = NoResponse
    /\ context = <<>>
    /\ calls = NoCalls
    /\ writer = IdleWriter
    /\ reader = IdleReader

NextQA ==
    \/ \E q \in Queries : StartChat(q)
    \/ \E encode_ok \in BOOLEAN : Retrieve(encode_ok)
    \/ CompleteRaises
    \/ \E raw \in RawResponses(top_k) : Complete(raw)

SpecQA == InitQA /\ [][NextQA]_vars

(* Every call the loop makes returns or raises, so a request in progress
   always takes its next step. *)
SpecQAFair == SpecQA /\ WF_vars(NextQA)

-----------------------------------------------------------------------------
(* /reprocess_pdf served while similarity_search runs on another thread.
   Flask serves each request on its own thread and the module takes no lock,
   so the statements of the two handlers interleave. *)

(* app.py lines 144-147: the import, "vector_index = None" on app's own
   global, and vector_texts.clear(). *)
ReprocessClearTexts ==
    /\ writer.pc = "idle"
    /\ vector_texts' = <<>>
    /\ writer' = [pc |-> "clear_metas", chunks |-> <<>>, response |-> "none"]
    /\ UNCHANGED <<vector_index, vector_metadatas, disk_faiss, disk_pkl, ret,
                   add_completed, trip, reader>>
    /\ UNCHANGED qavars

(* app.py line 148: vector_metadatas.clear(). *)
ReprocessClearMetas ==
    /\ writer.pc = "clear_metas"
    /\ vector_metadatas' = <<>>
    /\ writer' = [writer EXCEPT !.pc = "process"]
    /\ UNCHANGED <<vector_index, vector_texts, disk_faiss, disk_pkl, ret,
                   add_completed, trip, reader>>
    /\ UNCHANGED qavars

(* process_medical_pdf lines 54-65: a missing PDF or no chunks ends the
   request with an error. *)
ReprocessProcessPdf(pdf_exists, chunks) ==
    /\ writer.pc = "process"
    /\ NTotal(vector_index) + Len(chunks) <= MaxVectors
    /\ writer' = IF ~pdf_exists \/ Len(chunks) = 0
                 THEN [pc |-> "idle", chunks |-> <<>>, response |-> "failed"]
                 ELSE [pc |-> "embed", chunks |-> chunks, response |-> "none"]
    /\ UNCHANGED <<vector_index, vector_texts, vector_metadatas, disk_faiss, disk_pkl,
                   ret, add_completed, trip, reader>>
    /\ UNCHANGED qavars

(* add_to_vector_database lines 70-81: the index is created when the module
   has none, then the chunks are embedded; an exception ends the request. *)
ReprocessEmbed(embed_ok) ==
    /\ writer.pc = "embed"
    /\ vector_index' = IF vector_index.present THEN vector_index
                       ELSE create_vector_index
    /\ writer' = IF embed_ok
                 THEN [writer EXCEPT !.pc = "index_add"]
                 ELSE [pc |-> "idle", chunks |-> <<>>, response |-> "failed"]
    /\ UNCHANGED <<vector_texts, vector_metadatas, disk_faiss, disk_pkl, ret,
                   add_completed, trip, reader>>
    /\ UNCHANGED qavars

(* add_to_vector_database line 84: vector_index.add(embeddings). *)
ReprocessIndexAdd ==
    /\ writer.pc = "index_add"
    /\ vector_index' =
          [present |-> TRUE,
           vectors |-> vector_index.vectors \o
                       [i \in 1..Len(writer.chunks) |-> Embed(writer.chunks[i].text)]]
    /\ writer' = [writer EXCEPT !.pc = "extend_texts"]
    /\ UNCHANGED <<vector_texts, vector_metadatas, disk_faiss, disk_pkl, ret,
                   add_completed, trip, reader>>
    /\ UNCHANGED qavars

(* add_to_vector_database line 87: vector_texts.extend(texts). *)
ReprocessExtendTexts ==
    /\ writer.pc = "extend_texts"
    /\ vector_texts' = vector_texts \o
                       [i \in 1..Len(writer.chunks) |-> writer.chunks[i].text]
    /\ writer' = [writer EXCEPT !.pc = "extend_metas"]
    /\ UNCHANGED <<vector_index, vector_metadatas, disk_faiss, disk_pkl, ret,
                   add_completed, trip, reader>>
    /\ UNCHANGED qavars

(* add_to_vector_database line 88: vector_metadatas.extend(metadatas). *)
ReprocessExtendMetas ==
    /\ writer.pc = "extend_metas"
    /\ vector_metadatas' = vector_metadatas \o
                           [i \in 1..Len(writer.chunks) |-> writer.chunks[i].metadata]
    /\ add_completed' = TRUE
    /\ writer' = [writer EXCEPT !.pc = "save"]
    /\ UNCHANGED <<vector_index, vector_texts, disk_faiss, disk_pkl, ret, trip, reader>>
    /\ UNCHANGED qavars

(* process_medical_pdf lines 71-75 and the handler's answer. *)
ReprocessSave ==
    /\ writer.pc = "save"
    /\ LET r == SaveEffect(vector_index, vector_texts, vector_metadatas,
                           disk_faiss, disk_pkl)
       IN  /\ disk_faiss' = r.faiss
           /\ disk_pkl' = r.pkl
    /\ writer' = [pc |-> "idle", chunks |-> <<>>, response |-> "ok"]
    /\ UNCHANGED <<vector_index, vector_texts, vector_metadatas, ret, add_completed,
                   trip, reader>>
    /\ UNCHANGED qavars

(* similarity_search lines 97-110: the emptiness test, the query's embedding
   and the index search, on the index as it is at that moment. *)
ReaderSearchIndex(q, k) ==
    /\ reader.pc = "idle"
    /\ IF ~vector_index.present \/ NTotal(vector_index) = 0
       THEN /\ ret' = [op |-> "search", q |-> q, k |-> k, raised |-> FALSE,
                       results |-> <<>>]
            /\ UNCHANGED reader
       ELSE /\ \E hits \in IndexSearch(vector_index, q, k) :
                  reader' = [pc |-> "collect", q |-> q, k |-> k, hits |-> hits]
            /\ UNCHANGED ret
    /\ UNCHANGED <<vector_index, vector_texts, vector_metadatas, disk_faiss, disk_pkl,
                   add_completed, trip, writer>>
    /\ UNCHANGED qavars

(* similarity_search lines 112-122: the hits are looked up in the lists as
   they are at that moment. *)
ReaderCollect ==
    /\ reader.pc = "collect"
    /\ LET r == FilterHits(reader.hits, Len(reader.hits), vector_texts, vector_metadatas)
       IN  ret' = [op |-> "search", q |-> reader.q, k |-> reader.k,
                   raised |-> r.raised, results |-> r.results]
    /\ reader' = IdleReader
    /\ UNCHANGED <<vector_index, vector_texts, vector_metadatas, disk_faiss, disk_pkl,
                   add_completed, trip, writer>>
    /\ UNCHANGED qavars

NextConcurrent ==
    \/ ReprocessClearTexts
    \/ ReprocessClearMetas
    \/ \E pdf_exists \in BOOLEAN, chunks \in ChunkLists :
          ReprocessProcessPdf(pdf_exists, chunks)
    \/ \E embed_ok \in BOOLEAN : ReprocessEmbed(embed_ok)
    \/ ReprocessIndexAdd
    \/ ReprocessExtendTexts
    \/ ReprocessExtendMetas
    \/ ReprocessSave
    \/ \E q \in Queries, k \in 1..MaxK : ReaderSearchIndex(q, k)
    \/ ReaderCollect

SpecConcurrent == Init /\ [][NextConcurrent]_vars

-----------------------------------------------------------------------------
(* Properties *)

(* C1: at every point after a completed add, the index's vector count equals
   the number of stored passages and the number of stored metadata entries. *)
CountsAgreeAfterAdd ==
    add_completed =>
        /\ index_size = Len(vector_texts)
        /\ index_size = Len(vector_metadatas)

(* C2: an add whose embedding succeeds grows the index count, the passage list
   and the metadata list by exactly the number of passages given, keeping what
   was stored; an add that raises leaves all three as they were. *)
AddIsAtomic ==
    [][ret'.op = "add" =>
         IF ret'.raised
         THEN /\ index_size' = index_size
              /\ vector_texts' = vector_texts
              /\ vector_metadatas' = vector_metadatas
         ELSE /\ index_size' = index_size + ret'.n
              /\ Len(vector_texts') = Len(vector_texts) + ret'.n
              /\ Len(vector_metadatas') = Len(vector_metadatas) + ret'.n
              /\ SubSeq(vector_texts', 1, Len(vector_texts)) = vector_texts
              /\ SubSeq(vector_metadatas', 1, Len(vector_metadatas)) = vector_metadatas
       ]_vars

(* An add of at least one passage raised on a database that already held
   passages. *)
FailedAddOnPopulated ==
    /\ ret.op = "add"
    /\ ret.raised
    /\ ret.n > 0
    /\ Len(vector_texts) > 0
    /\ index_size > 0

(* C3: a request makes at most 10 completion calls and always comes to its
   end. *)
CompletionBound == MaxTopK - InitialTopK + 1

CriticLoopBounded ==
    /\ [](CompletionBound = 10 /\ calls.completions <= CompletionBound)
    /\ (pc \in {"retrieve", "complete"}) ~> (pc = "done")

(* A request that made all ten completion calls has returned. *)
TenCompletionsMade ==
    /\ pc = "done"
    /\ calls.completions = 10
    /\ ret.outcome = "returned"

(* C4: once retrieval or the completion service has raised, the request is
   over, it has returned the fallback string rather than raised, and it makes
   no further retrieval or completion call. *)
ExceptionEndsWithFallback ==
    /\ [](calls.raised =>
            /\ pc = "done"
            /\ ret.op = "generate_medical_response"
            /\ ret.outcome = "returned"
            /\ ret.value = Fallback
            /\ ret.value # final_response)
    /\ [][calls.raised => calls' = calls]_vars

(* The completion service raised at a later iteration, after earlier
   candidates had been produced. *)
RaisedAfterCandidates ==
    /\ calls.raised
    /\ calls.retrievals = calls.completions
    /\ calls.completions >= 3
    /\ final_response.kind = "candidate"

(* C5: a search that returns gives at most k results, each with a score above
   0.3 and each the passage, metadata and score of a stored index position. *)
SearchResultsFiltered ==
    (ret.op = "search" /\ ~ret.raised) =>
        /\ Len(ret.results) <= ret.k
        /\ \A i \in 1..Len(ret.results) :
              /\ ret.results[i].score > RelevanceThreshold
              /\ \E p \in 1..NTotal(vector_index) :
                    /\ p <= Len(vector_texts)
                    /\ p <= Len(vector_metadatas)
                    /\ ret.results[i].text = vector_texts[p]
                    /\ ret.results[i].metadata = vector_metadatas[p]
                    /\ ret.results[i].score = IndexScore(ret.q, vector_index.vectors[p])

(* A search returned a result while the index also held a vector whose score
   for the query is not above the floor. *)
SearchDroppedLowScore ==
    /\ ret.op = "search"
    /\ ~ret.raised
    /\ Len(ret.results) >= 1
    /\ \E p \in 1..NTotal(vector_index) :
          IndexScore(ret.q, vector_index.vectors[p]) <= RelevanceThreshold

(* C6: the scores of returned results do not increase along the list. *)
ResultsScoreDescending ==
    (ret.op = "search" /\ ~ret.raised) =>
        \A i, j \in 1..Len(ret.results) :
            i < j => ret.results[i].score >= ret.results[j].score

(* C7: a load into a new process right after a save restores the passages, in
   order, and the index count that were current at the save. *)
RoundTripRestores ==
    trip.phase = "loaded" =>
        /\ total_chunks = Len(trip.texts)
        /\ vector_texts = trip.texts
        /\ index_size = trip.count

(* C8: when all ten candidates are rejected and nothing raises, the request
   returns the post-processed answer of the request of breadth 12, not the
   fallback. *)
NonConvergenceReturnsLast ==
    (pc = "done" /\ ~calls.raised /\ calls.rejections = 10) =>
        /\ ret.outcome = "returned"
        /\ last_raw.k = MaxTopK
        /\ ret.value = FormatMedicalResponse(last_raw)
        /\ ret.value.kind = "candidate"
        /\ ret.value # Fallback

(* All ten candidates were rejected and the request is over. *)
AllTenRejected ==
    /\ pc = "done"
    /\ ~calls.raised
    /\ calls.rejections = 10
    /\ calls.completions = 10

(* C9: a call of create_vector_index made while an index exists raises and
   leaves that index in place. *)
SecondCreateRaises ==
    [][(ret'.op = "create_vector_index" /\ vector_index.present) =>
         /\ ret'.raised
         /\ vector_index' = vector_index
       ]_vars

(* C10: the breadth starts at 3; an iteration is one retrieval with the
   current breadth and then one completion; acceptance ends the loop; a
   rejection below 12 starts one iteration with breadth + 1 and the same
   query; no retrieval has a breadth above 12. *)
CriticLoopShape ==
    /\ [](/\ calls.last_k <= MaxTopK
          /\ pc = "retrieve" =>
                /\ top_k \in InitialTopK..MaxTopK
                /\ calls.retrievals = top_k - InitialTopK
                /\ calls.completions = top_k - InitialTopK
          /\ pc = "complete" =>
                /\ calls.last_k = top_k
                /\ calls.retrievals = top_k - InitialTopK + 1
                /\ calls.completions = top_k - InitialTopK)
    /\ [][/\ (pc = "idle" /\ pc' # "idle") => (pc' = "retrieve" /\ top_k' = 3)
          /\ (pc = "retrieve" /\ pc' = "complete") =>
                (calls'.retrievals = calls.retrievals + 1 /\ calls'.last_k = top_k)
          /\ (pc = "complete" /\ calls'.completions = calls.completions + 1
                /\ ~calls'.raised) =>
                /\ calls'.verdict = "accepted" =>
                      (pc' = "done" /\ calls'.retrievals = calls.retrievals)
                /\ (calls'.verdict = "rejected" /\ top_k < MaxTopK) =>
                      (pc' = "retrieve" /\ top_k' = top_k + 1 /\ query' = query)
                /\ (calls'.verdict = "rejected" /\ top_k = MaxTopK) => pc' = "done"
          /\ pc = "done" => calls' = calls
       ]_vars

(* A candidate was rejected at breadth 11 and the request is about to
   retrieve with breadth 12. *)
WidenedToTwelve ==
    /\ pc = "retrieve"
    /\ top_k = 12
    /\ calls.verdict = "rejected"
    /\ calls.retrievals = 9

(* C11: when a request returns without an exception, the retry count it
   prints is the number of completion calls it made minus one. *)
RetriesCountWidenings ==
    (pc = "done" /\ ~calls.raised /\ EmittedRetries(retries).printed) =>
        EmittedRetries(retries).count = calls.completions - 1

(* C12: while /reprocess_pdf and searches interleave, a search never looks up
   an index position outside the passage and metadata lists: the hits it is
   about to look up are inside both lists, and no search ends in IndexError. *)
SearchStaysInRange ==
    /\ reader.pc = "collect" =>
          \A i \in 1..Len(reader.hits) :
              Relevant(reader.hits[i]) =>
                  /\ InRange(vector_texts, reader.hits[i].idx)
                  /\ InRange(vector_metadatas, reader.hits[i].idx)
    /\ ret.op = "search" => ~ret.raised

====
